---- MODULE Spec2Model ----
(***************************************************************************)
(* State-machine model of src/yt.py: the Flask routes /download,           *)
(* /downloads/<filename>, /status/<file_id>, /cleanup, the background      *)
(* download thread (download_video / download_highest_quality /            *)
(* merge_audio_video) and the cleanup thread (cleanup_old_files), all      *)
(* sharing the directory DOWNLOAD_DIR.                                     *)
(*                                                                         *)
(* The only shared state of the program is the download directory: there  *)
(* is no job table in memory.  yt_dlp and ffmpeg are external programs;    *)
(* their effect on the directory is a nondeterministic choice among what   *)
(* they are known to do.  A yt_dlp download makes its output appear under  *)
(* the requested name in one step (it downloads under a name of its own    *)
(* and renames; those files of yt_dlp are not modelled), the output may be *)
(* empty, an existing output is left as it is, and the call may raise      *)
(* before or after the output appeared, or never return.  ffmpeg creates   *)
(* its output file and then writes it.  File deletion follows POSIX: a     *)
(* file that is removed while a writer has it open disappears from the     *)
(* directory and later writes of that writer do not bring it back.         *)
(***************************************************************************)
EXTENDS Integers, FiniteSets, Sequences, TLC

\* src/yt.py:15 -- seconds
CLEANUP_INTERVAL == 3600

\* number of job ids (uuid4 values) of the model
MaxJobs == 2
\* number of jobs POST /download starts in one run of Spec
MaxSubmits == 1
\* largest file size, in abstract blocks
MaxSize == 2
\* the clock advances MaxTicks times
MaxTicks == 1

JobIds == 1..MaxJobs
\* one tick of the clock: just more than the lifetime of a file
TickSeconds == CLEANUP_INTERVAL + 1
Times == {k * TickSeconds : k \in 0..MaxTicks}

(***************************************************************************)
(* File names of DOWNLOAD_DIR.  <<"artifact", j>> is "<file_id>.mp4" of    *)
(* job j (line 272); <<"video", j>> and <<"audio", j>> are the files       *)
(* "video_<uuid4>.<ext>" and "audio_<uuid4>.<ext>" that job j's task       *)
(* creates on the separate-stream path (lines 112-113, 119, 132).          *)
(***************************************************************************)
Names == {"artifact", "video", "audio"} \X JobIds
Artifact(j) == <<"artifact", j>>
VideoTemp(j) == <<"video", j>>
AudioTemp(j) == <<"audio", j>>
NoName == <<"none", 0>>
Owner(n) == n[2]

NoFile == [size |-> -1, mtime |-> -1]
FileRecs == [size : 0..MaxSize, mtime : Times]

VARIABLES
  files,    \* DOWNLOAD_DIR: Names -> FileRecs \cup {NoFile}
  now,      \* wall clock, seconds
  task,     \* JobIds -> the background thread of the job
  sweeper,  \* the cleanup thread
  st,       \* the /status request in progress
  resp,     \* the HTTP response sent by the last step (NoResp: it sent none)
  seen,     \* history: JobIds -> largest size /status reported ready, -1 if none
  swept     \* history: JobIds -> "no", or the state the job's thread was in
            \* ("running", "terminated") when the cleanup thread removed its artifact

vars == <<files, now, task, sweeper, st, resp, seen, swept>>

Exists(n) == n \in Names /\ files[n] # NoFile
Listing == {n \in Names : files[n] # NoFile}

NoTask == [pc |-> "none", wrote |-> FALSE, vfile |-> NoName, afile |-> NoName]
\* fs: the handler touched DOWNLOAD_DIR; net: it called the engine; req: the
\* kind of body a POST /download carried
NoResp == [route |-> "none", tok |-> <<"none", 0>>, code |-> 0,
           status |-> "none", size |-> -1, fs |-> FALSE, net |-> FALSE, req |-> "none"]

\* the thread of job j was started and has not terminated
Running(j) == task[j].pc \notin {"none", "done", "failed"}
Terminated(j) == task[j].pc \in {"done", "failed"}

Init ==
  /\ files = [n \in Names |-> NoFile]
  /\ now = 0
  /\ task = [j \in JobIds |-> NoTask]
  /\ sweeper = [pc |-> "sleep", wakeAt |-> CLEANUP_INTERVAL, nowS |-> 0,
                todo |-> {}, cur |-> NoName, mt |-> -1]
  /\ st = [pc |-> "idle", tok |-> <<"none", 0>>]
  /\ resp = NoResp
  /\ seen = [j \in JobIds |-> -1]
  /\ swept = [j \in JobIds |-> "no"]

\* time passes
Advance ==
  /\ now < MaxTicks * TickSeconds
  /\ now' = now + TickSeconds
  /\ UNCHANGED <<files, task, sweeper, st, seen, swept>>
  /\ resp' = NoResp

(***************************************************************************)
(* POST /download (download_short).  body is the request: no JSON, JSON    *)
(* without url, or JSON with a url; info is what ydl.extract_info does in  *)
(* the handler for that url (line 254).  uuid4 is modelled as a fresh id:  *)
(* the least id no task was started for.                                   *)
(***************************************************************************)
FreshId == CHOOSE j \in JobIds : task[j].pc = "none" /\ \A k \in JobIds : k < j => task[k].pc # "none"

SubmitResp(body, code, status, j, net) ==
  [route |-> "download", tok |-> <<"uuid", j>>, code |-> code,
   status |-> status, size |-> -1, fs |-> FALSE, net |-> net, req |-> body]

\* a handler that lets an empty url through the test of line 240
download_short_EmptyUrlPasses(body, info) ==
  /\ \/ /\ body = "nojson"
        /\ resp' = SubmitResp(body, 400, "error", 0, FALSE)
        /\ UNCHANGED task
     \/ /\ body \in {"nourl", "url"}
        /\ info \in {"none", "DownloadError"}
        /\ resp' = SubmitResp(body, 400, "error", 0, TRUE)
        /\ UNCHANGED task
     \/ /\ body \in {"nourl", "url"}
        /\ info = "Exception"
        /\ resp' = SubmitResp(body, 500, "error", 0, TRUE)
        /\ UNCHANGED task
     \/ /\ body \in {"nourl", "url"}
        /\ info = "ok"
        /\ Cardinality({j \in JobIds : task[j].pc # "none"}) < MaxSubmits
        /\ task' = [task EXCEPT ![FreshId] = [NoTask EXCEPT !.pc = "info"]]
        /\ resp' = SubmitResp(body, 200, "success", FreshId, TRUE)
  /\ UNCHANGED <<files, now, sweeper, st, seen, swept>>

\* a handler in which the exception of line 299 is raised after thread.start()
download_short_RaiseAfterStart(body, info) ==
  /\ \/ /\ body \in {"nojson", "nourl"}
        /\ resp' = SubmitResp(body, 400, "error", 0, FALSE)
        /\ UNCHANGED task
     \/ /\ body = "url"
        /\ info \in {"none", "DownloadError"}
        /\ resp' = SubmitResp(body, 400, "error", 0, TRUE)
        /\ UNCHANGED task
     \/ /\ body = "url"
        /\ info = "Exception"
        /\ Cardinality({j \in JobIds : task[j].pc # "none"}) < MaxSubmits
        /\ task' = [task EXCEPT ![FreshId] = [NoTask EXCEPT !.pc = "info"]]
        /\ resp' = SubmitResp(body, 500, "error", 0, TRUE)
     \/ /\ body = "url"
        /\ info = "ok"
        /\ Cardinality({j \in JobIds : task[j].pc # "none"}) < MaxSubmits
        /\ task' = [task EXCEPT ![FreshId] = [NoTask EXCEPT !.pc = "info"]]
        /\ resp' = SubmitResp(body, 200, "success", FreshId, TRUE)
  /\ UNCHANGED <<files, now, sweeper, st, seen, swept>>

\* body: request.get_json() is falsy ("nojson"), data.get('url') is falsy
\* ("nourl": missing or empty) or a url is given; info: what extract_info does
download_short(body, info) ==
  /\ \/ /\ body \in {"nojson", "nourl"}
        /\ resp' = SubmitResp(body, 400, "error", 0, FALSE)
        /\ UNCHANGED task
     \/ /\ body = "url"
        /\ info \in {"none", "DownloadError"}
        /\ resp' = SubmitResp(body, 400, "error", 0, TRUE)
        /\ UNCHANGED task
     \/ /\ body = "url"
        /\ info = "Exception"
        /\ resp' = SubmitResp(body, 500, "error", 0, TRUE)
        /\ UNCHANGED task
     \/ /\ body = "url"
        /\ info = "ok"
        /\ Cardinality({j \in JobIds : task[j].pc # "none"}) < MaxSubmits
        /\ task' = [task EXCEPT ![FreshId] = [NoTask EXCEPT !.pc = "info"]]
        /\ resp' = SubmitResp(body, 200, "success", FreshId, TRUE)
  /\ UNCHANGED <<files, now, sweeper, st, seen, swept>>


(***************************************************************************)
(* The background thread (download_video -> download_highest_quality).     *)
(* task[j].pc is the statement the thread is at:                           *)
(*   info       ydl.extract_info and the format selection (lines 66-108)   *)
(*   primary    ydl.download of the combined format    (lines 170-185)     *)
(*   dl_video   ydl.download into video_<uuid4>        (lines 125-126)     *)
(*   dl_audio   ydl.download into audio_<uuid4>        (lines 138-139)     *)
(*   find       the os.listdir loop                    (lines 142-151)     *)
(*   merge      merge_audio_video                      (lines 155, 35-55)  *)
(*   rm_*       removal of the two temporary files     (lines 157-163)     *)
(*   fallback   ydl.download of the fallback format    (lines 190-203)     *)
(*   cleanup    the except branch of download_video    (lines 225-231)     *)
(*   done       download_video returned without entering its except branch *)
(*   failed     download_video returned from its except branch             *)
(*   hung       an engine call that never returns                          *)
(* wrote: the engine call in progress has opened its output file.          *)
(***************************************************************************)
SetTask(j, pc) ==
  [task EXCEPT ![j].pc = pc, ![j].wrote = FALSE,
               ![j].vfile = IF pc \in {"merge", "rm_video_chk", "rm_video", "rm_audio_chk", "rm_audio"}
                              THEN @ ELSE NoName,
               ![j].afile = IF pc \in {"merge", "rm_video_chk", "rm_video", "rm_audio_chk", "rm_audio"}
                              THEN @ ELSE NoName]

\* lines 59-108: metadata and format selection
TaskInfo(j) ==
  /\ task[j].pc = "info"
  /\ \E r \in {"combined", "separate", "raise"} :
       task' = SetTask(j, CASE r = "combined" -> "primary"
                            [] r = "separate" -> "dl_video"
                            [] OTHER -> "fallback")
  /\ UNCHANGED <<files, now, sweeper, st, seen, swept>>
  /\ resp' = NoResp

\* an engine call (yt_dlp, ffmpeg) that never returns; the code sets no timeout
TaskHang(j) ==
  /\ task[j].pc \in {"info", "primary", "dl_video", "dl_audio", "merge", "fallback"}
  /\ task' = [task EXCEPT ![j].pc = "hung"]
  /\ UNCHANGED <<files, now, sweeper, st, seen, swept>>
  /\ resp' = NoResp

\* the download appears at 'outtmpl': output_filename (lines 173, 194)
EngineWrite(j) ==
  /\ task[j].pc \in {"primary", "fallback"}
  /\ ~task[j].wrote
  /\ ~Exists(Artifact(j))
  /\ \E n \in 0..MaxSize :
       files' = [files EXCEPT ![Artifact(j)] = [size |-> n, mtime |-> now]]
  /\ task' = [task EXCEPT ![j].wrote = TRUE]
  /\ UNCHANGED <<now, sweeper, st, seen, swept>>
  /\ resp' = NoResp

\* lines 182-185: the download of the combined format returns
PrimaryReturn(j) ==
  /\ task[j].pc = "primary"
  /\ task[j].wrote \/ Exists(Artifact(j))
  /\ task' = SetTask(j, "done")
  /\ UNCHANGED <<files, now, sweeper, st, seen, swept>>
  /\ resp' = NoResp

\* line 187: any exception of the primary attempt leads to the fallback
PrimaryRaise(j) ==
  /\ task[j].pc \in {"primary", "dl_video", "dl_audio"}
  /\ task' = SetTask(j, "fallback")
  /\ UNCHANGED <<files, now, sweeper, st, seen, swept>>
  /\ resp' = NoResp

\* lines 125-126, 138-139: the download appears under the temporary name
TempWrite(j) ==
  /\ task[j].pc \in {"dl_video", "dl_audio"}
  /\ ~task[j].wrote
  /\ LET t == IF task[j].pc = "dl_video" THEN VideoTemp(j) ELSE AudioTemp(j)
     IN  files' = [files EXCEPT ![t] = [size |-> 1, mtime |-> now]]
  /\ task' = [task EXCEPT ![j].wrote = TRUE]
  /\ UNCHANGED <<now, sweeper, st, seen, swept>>
  /\ resp' = NoResp

TempReturn(j) ==
  /\ task[j].pc \in {"dl_video", "dl_audio"}
  /\ task[j].wrote
  /\ task' = SetTask(j, IF task[j].pc = "dl_video" THEN "dl_audio" ELSE "find")
  /\ UNCHANGED <<files, now, sweeper, st, seen, swept>>
  /\ resp' = NoResp

(***************************************************************************)
(* lines 142-151.  The loop keeps the last listed file whose name starts   *)
(* with "video" (os.path.basename(video_temp).split('_')[0]) and the last  *)
(* one that starts with "audio"; os.listdir lists in arbitrary order, so   *)
(* any file with that prefix can be the one kept.                          *)
(***************************************************************************)
Prefixed(kind) == {n \in Listing : n[1] = kind}
LastListed(kind) == IF Prefixed(kind) = {} THEN {NoName} ELSE Prefixed(kind)

TaskFind(j) ==
  /\ task[j].pc = "find"
  /\ \E v \in LastListed("video"), a \in LastListed("audio") :
       IF v = NoName \/ a = NoName
         THEN task' = SetTask(j, "fallback")
         ELSE task' = [task EXCEPT ![j].pc = "merge", ![j].wrote = FALSE,
                                   ![j].vfile = v, ![j].afile = a]
  /\ UNCHANGED <<files, now, sweeper, st, seen, swept>>
  /\ resp' = NoResp

\* lines 35-48: ffmpeg opens its inputs and creates the output ('-y')
MergeStart(j) ==
  /\ task[j].pc = "merge"
  /\ ~task[j].wrote
  /\ IF Exists(task[j].vfile) /\ Exists(task[j].afile)
       THEN /\ files' = [files EXCEPT ![Artifact(j)] = [size |-> 0, mtime |-> now]]
            /\ task' = [task EXCEPT ![j].wrote = TRUE]
       ELSE /\ task' = SetTask(j, "fallback")
            /\ UNCHANGED files
  /\ UNCHANGED <<now, sweeper, st, seen, swept>>
  /\ resp' = NoResp

\* ffmpeg writes the output
MergeWrite(j) ==
  /\ task[j].pc = "merge"
  /\ task[j].wrote
  /\ Exists(Artifact(j))
  /\ \E n \in 1..MaxSize :
       /\ n > files[Artifact(j)].size
       /\ files' = [files EXCEPT ![Artifact(j)] = [size |-> n, mtime |-> now]]
  /\ UNCHANGED <<task, now, sweeper, st, seen, swept>>
  /\ resp' = NoResp

\* lines 48-55, 155-167: ffmpeg ends; False is turned into an exception
MergeReturn(j, ok) ==
  /\ task[j].pc = "merge"
  /\ ok => task[j].wrote
  /\ task' = SetTask(j, IF ok THEN "rm_video_chk" ELSE "fallback")
  /\ UNCHANGED <<files, now, sweeper, st, seen, swept>>
  /\ resp' = NoResp

\* lines 157-163: try: exists/remove video, exists/remove audio; except: pass
RemoveTempCheck(j) ==
  /\ task[j].pc \in {"rm_video_chk", "rm_audio_chk"}
  /\ LET video == task[j].pc = "rm_video_chk"
         f == IF video THEN task[j].vfile ELSE task[j].afile
     IN  task' = SetTask(j, IF Exists(f)
                              THEN (IF video THEN "rm_video" ELSE "rm_audio")
                              ELSE (IF video THEN "rm_audio_chk" ELSE "done"))
  /\ UNCHANGED <<files, now, sweeper, st, seen, swept>>
  /\ resp' = NoResp

RemoveTemp(j) ==
  /\ task[j].pc \in {"rm_video", "rm_audio"}
  /\ LET video == task[j].pc = "rm_video"
         f == IF video THEN task[j].vfile ELSE task[j].afile
     IN  IF Exists(f)
           THEN /\ files' = [files EXCEPT ![f] = NoFile]
                /\ task' = SetTask(j, IF video THEN "rm_audio_chk" ELSE "done")
           ELSE \* os.remove raises; 'except: pass' skips what is left
                /\ task' = SetTask(j, "done")
                /\ UNCHANGED files
  /\ UNCHANGED <<now, sweeper, st, seen, swept>>
  /\ resp' = NoResp

\* lines 198-200: the fallback download returns
FallbackReturn(j) ==
  /\ task[j].pc = "fallback"
  /\ task[j].wrote \/ Exists(Artifact(j))
  /\ task' = SetTask(j, "done")
  /\ UNCHANGED <<files, now, sweeper, st, seen, swept>>
  /\ resp' = NoResp

\* a fallback whose failure starts the download over
FallbackRaiseRetries(j) ==
  /\ task[j].pc = "fallback"
  /\ task' = SetTask(j, "info")
  /\ UNCHANGED <<files, now, sweeper, st, seen, swept>>
  /\ resp' = NoResp

\* lines 201-203: the fallback raises too, and the exception leaves the function
FallbackRaise(j) ==
  /\ task[j].pc = "fallback"
  /\ task' = SetTask(j, "cleanup")
  /\ UNCHANGED <<files, now, sweeper, st, seen, swept>>
  /\ resp' = NoResp

\* lines 225-231: the except branch of download_video
download_video_except(j) ==
  /\ task[j].pc = "cleanup"
  /\ files' = [files EXCEPT ![Artifact(j)] = NoFile]
  /\ task' = SetTask(j, "failed")
  /\ UNCHANGED <<now, sweeper, st, seen, swept>>
  /\ resp' = NoResp

TaskStep(j) ==
  \/ TaskInfo(j)
  \/ EngineWrite(j)
  \/ PrimaryReturn(j)
  \/ PrimaryRaise(j)
  \/ TempWrite(j)
  \/ TempReturn(j)
  \/ TaskFind(j)
  \/ MergeStart(j)
  \/ MergeWrite(j)
  \/ \E ok \in BOOLEAN : MergeReturn(j, ok)
  \/ RemoveTempCheck(j)
  \/ RemoveTemp(j)
  \/ FallbackReturn(j)
  \/ FallbackRaise(j)
  \/ download_video_except(j)


(***************************************************************************)
(* The cleanup thread (cleanup_old_files, lines 205-219).  sweeper.pc:     *)
(*   sleep     time.sleep(CLEANUP_INTERVAL)                  (line 208)    *)
(*   scan      the for loop over os.listdir, at os.path.isfile (210-212)   *)
(*   getmtime  os.path.getmtime and the age test             (213-214)     *)
(*   remove    os.remove inside try/except                   (215-219)     *)
(*   dead      an exception left the thread's function                     *)
(* nowS is the 'now' of line 209, todo the part of the listing not yet     *)
(* visited (os.listdir lists in arbitrary order), cur the file at hand and *)
(* mt the file_time of line 213 (-1 outside the remove step).              *)
(***************************************************************************)
SweepWake ==
  /\ sweeper.pc = "sleep"
  /\ now >= sweeper.wakeAt
  /\ sweeper' = [sweeper EXCEPT !.pc = "scan", !.nowS = now, !.todo = Listing]
  /\ UNCHANGED <<files, now, task, st, seen, swept>>
  /\ resp' = NoResp

\* line 210 ends the for loop, line 207 loops, line 208 sleeps again
SweepSleep ==
  /\ sweeper.pc = "scan"
  /\ sweeper.todo = {}
  /\ sweeper' = [sweeper EXCEPT !.pc = "sleep", !.wakeAt = now + CLEANUP_INTERVAL,
                                !.nowS = 0, !.cur = NoName]
  /\ UNCHANGED <<files, now, task, st, seen, swept>>
  /\ resp' = NoResp

\* lines 210-212: next file of the listing, os.path.isfile
SweepIsFile(f) ==
  /\ sweeper.pc = "scan"
  /\ f \in sweeper.todo
  /\ sweeper' = [sweeper EXCEPT !.todo = @ \ {f},
                                !.pc = IF Exists(f) THEN "getmtime" ELSE "scan",
                                !.cur = IF Exists(f) THEN f ELSE NoName]
  /\ UNCHANGED <<files, now, task, st, seen, swept>>
  /\ resp' = NoResp

\* an age test that lets a file of any age through
ExpiredAnyAge(t, mtime) == t - mtime >= 0

\* line 214: now - file_time > timedelta(seconds=CLEANUP_INTERVAL)
Expired(t, mtime) == t - mtime > CLEANUP_INTERVAL

\* lines 213-214: os.path.getmtime is outside the try of line 215
SweepGetMtime ==
  /\ sweeper.pc = "getmtime"
  /\ sweeper' = [sweeper EXCEPT
       !.pc = IF ~Exists(sweeper.cur) THEN "dead"
              ELSE IF Expired(sweeper.nowS, files[sweeper.cur].mtime) THEN "remove"
              ELSE "scan",
       !.cur = IF Exists(sweeper.cur) /\ Expired(sweeper.nowS, files[sweeper.cur].mtime)
                 THEN @ ELSE NoName,
       !.mt = IF Exists(sweeper.cur) /\ Expired(sweeper.nowS, files[sweeper.cur].mtime)
                 THEN files[sweeper.cur].mtime ELSE -1]
  /\ UNCHANGED <<files, now, task, st, seen, swept>>
  /\ resp' = NoResp

\* lines 215-219: os.remove; its exception is printed and the loop goes on
SweepRemove ==
  /\ sweeper.pc = "remove"
  /\ files' = IF Exists(sweeper.cur) THEN [files EXCEPT ![sweeper.cur] = NoFile] ELSE files
  /\ sweeper' = [sweeper EXCEPT !.pc = "scan", !.cur = NoName, !.mt = -1]
  /\ swept' = IF Exists(sweeper.cur) /\ sweeper.cur[1] = "artifact"
                THEN [swept EXCEPT ![Owner(sweeper.cur)] =
                        IF Running(Owner(sweeper.cur)) THEN "running" ELSE "terminated"]
                ELSE swept
  /\ UNCHANGED <<now, task, st, seen>>
  /\ resp' = NoResp

cleanup_old_files ==
  \/ SweepWake
  \/ SweepSleep
  \/ \E f \in Names : SweepIsFile(f)
  \/ SweepGetMtime
  \/ SweepRemove

(***************************************************************************)
(* Request tokens.  <<"uuid", j>> is the j-th uuid (the id of job j once   *)
(* /download has returned it), <<"video", j>> is the string                *)
(* "video_<uuid4>" of job j's temporary video file when its extension is   *)
(* mp4, <<"bad", 0>> a string that is no uuid and names no file (".." for  *)
(* one).  The routes take any string without a slash.                      *)
(***************************************************************************)
Tokens == ({"uuid", "video"} \X JobIds) \cup {<<"bad", 0>>}

\* os.path.join(DOWNLOAD_DIR, f"{file_id}.mp4") (lines 309, 324)
PathOf(tok) ==
  CASE tok[1] = "uuid" -> Artifact(tok[2])
    [] tok[1] = "video" -> VideoTemp(tok[2])
    [] OTHER -> NoName

\* line 306: re.match(r'^[a-f0-9\-]{36}\.mp4$', filename)
ValidFilename(tok) == tok[1] = "uuid"

HttpResp(route, tok, code, status, size, fs) ==
  [route |-> route, tok |-> tok, code |-> code, status |-> status, size |-> size,
   fs |-> fs, net |-> FALSE, req |-> "none"]

\* lines 324-326, 333-334: os.path.exists
StatusExists(tok) ==
  /\ st.pc = "idle"
  /\ IF Exists(PathOf(tok))
       THEN /\ st' = [pc |-> "size", tok |-> tok]
            /\ resp' = NoResp
       ELSE /\ resp' = HttpResp("status", tok, 200, "processing", -1, TRUE)
            /\ UNCHANGED st
  /\ UNCHANGED <<files, now, task, sweeper, seen, swept>>

\* lines 327-332: os.path.getsize raises if the file is gone; Flask answers 500
StatusSize ==
  /\ st.pc = "size"
  /\ resp' = IF Exists(PathOf(st.tok))
               THEN HttpResp("status", st.tok, 200, "ready", files[PathOf(st.tok)].size, TRUE)
               ELSE HttpResp("status", st.tok, 500, "error", -1, TRUE)
  /\ st' = [pc |-> "idle", tok |-> <<"none", 0>>]
  /\ seen' = IF st.tok[1] = "uuid" /\ Exists(PathOf(st.tok))
                   /\ files[PathOf(st.tok)].size > seen[st.tok[2]]
               THEN [seen EXCEPT ![st.tok[2]] = files[PathOf(st.tok)].size] ELSE seen
  /\ UNCHANGED <<files, now, task, sweeper, swept>>

check_status ==
  \/ \E tok \in Tokens : StatusExists(tok)
  \/ StatusSize

\* lines 302-319; send_from_directory answers 404 itself if the file is gone
serve_download(tok) ==
  /\ resp' = IF ~ValidFilename(tok)
               THEN HttpResp("downloads", tok, 400, "error", -1, FALSE)
             ELSE IF ~Exists(PathOf(tok))
               THEN HttpResp("downloads", tok, 404, "error", -1, TRUE)
             ELSE HttpResp("downloads", tok, 200, "file", files[PathOf(tok)].size, TRUE)
  /\ UNCHANGED <<files, now, task, sweeper, st, seen, swept>>

\* lines 336-351: POST /cleanup removes every file of the directory; the
\* size of its response is the number of files removed
manual_cleanup ==
  /\ files' = [n \in Names |-> NoFile]
  /\ resp' = HttpResp("cleanup", <<"none", 0>>, 200, "cleaned", Cardinality(Listing), TRUE)
  /\ UNCHANGED <<now, task, sweeper, st, seen, swept>>

Next ==
  \/ Advance
  \/ \E body \in {"nojson", "nourl", "url"}, info \in {"ok", "none", "DownloadError", "Exception"} :
       download_short(body, info)
  \/ \E j \in JobIds : TaskStep(j)
  \/ \E j \in JobIds : TaskHang(j)
  \/ cleanup_old_files
  \/ check_status
  \/ \E tok \in Tokens : serve_download(tok)
  \/ manual_cleanup

Spec == Init /\ [][Next]_vars

(***************************************************************************)
(* Two jobs side by side.  InitPair is the state after two POST /download  *)
(* requests were answered 200: both threads are started (line 280).        *)
(* NextPair lets only the two threads run; the operating system schedules  *)
(* every thread that can take a step.                                      *)
(***************************************************************************)
InitPair ==
  /\ files = [n \in Names |-> NoFile]
  /\ now = 0
  /\ task = [j \in JobIds |-> [NoTask EXCEPT !.pc = "info"]]
  /\ sweeper = [pc |-> "sleep", wakeAt |-> CLEANUP_INTERVAL, nowS |-> 0,
                todo |-> {}, cur |-> NoName, mt |-> -1]
  /\ st = [pc |-> "idle", tok |-> <<"none", 0>>]
  /\ resp = NoResp
  /\ seen = [j \in JobIds |-> -1]
  /\ swept = [j \in JobIds |-> "no"]

NextPair ==
  \/ \E j \in JobIds : TaskStep(j)
  \/ \E j \in JobIds : TaskHang(j)

SpecPair == InitPair /\ [][NextPair]_vars /\ \A j \in JobIds : WF_vars(TaskStep(j))


(***************************************************************************)
(*                              Properties                                 *)
(***************************************************************************)

\* ffmpeg has created the artifact of job j and has not ended
Writing(j) == task[j].pc = "merge" /\ task[j].wrote
StatusAnswered(j) == resp.route = "status" /\ resp.tok = <<"uuid", j>>
ServeAnswered(j) == resp.route = "downloads" /\ resp.tok = <<"uuid", j>>

\* C1: while the thread of a job is running, no step of the cleanup thread
\* removes a file of that job, whatever the file's age.
C1_SweeperSparesRunningJobs ==
  [][\A n \in Names :
       (sweeper.pc = "remove" /\ sweeper'.pc = "scan" /\ sweeper.cur = n
          /\ files[n] # NoFile /\ files'[n] = NoFile)
       => ~Running(Owner(n))]_vars

\* C2: a /status answer that says ready carries a size greater than zero.
C2_ReadyHasPositiveSize ==
  (resp.route = "status" /\ resp.status = "ready") => resp.size > 0

\* C3: a served artifact is at least as long as every size /status reported
\* for it before, and neither /status nor /downloads presents as complete a
\* file that the job's thread is still writing.
C3_FinalizeBeforeVisible ==
  \A j \in JobIds :
    /\ (ServeAnswered(j) /\ resp.code = 200) => resp.size >= seen[j]
    /\ ((StatusAnswered(j) /\ resp.status = "ready") \/ (ServeAnswered(j) /\ resp.code = 200))
         => ~Writing(j)

\* C4: once /status has said ready for an id it never says processing for
\* it again, and once the cleanup thread has removed the artifact the id is
\* never reported ready again.
C4_StatusMonotonic ==
  \A j \in JobIds :
    /\ (seen[j] >= 0 /\ StatusAnswered(j)) => resp.status # "processing"
    /\ (swept[j] # "no" /\ StatusAnswered(j)) => resp.status # "ready"

\* C5: job ids are pairwise distinct (uuid4, modelled as fresh ids) and the
\* files a thread merges and removes (video_file, audio_file of lines
\* 142-161) are files its own job created.
C5_TaskUsesOwnFiles ==
  \A j \in JobIds :
    /\ task[j].vfile # NoName => Owner(task[j].vfile) = j
    /\ task[j].afile # NoName => Owner(task[j].afile) = j

\* C6: every started job eventually terminates (done or failed), also when
\* the engine never returns.
C6_EveryJobTerminates ==
  \A j \in JobIds : (task[j].pc # "none") ~> Terminated(j)

\* C7: after the thread of a job has ended in failure, every /status answer
\* for the id says failed.
C7_FailedIsReported ==
  \A j \in JobIds :
    (task[j].pc = "failed" /\ StatusAnswered(j)) => resp.status = "failed"

\* the fetch of job j failed: both attempts raised, or what it left at the
\* artifact path is a zero-byte file
FetchFailed(j) ==
  \/ task[j].pc = "failed"
  \/ task[j].pc = "done" /\ Exists(Artifact(j)) /\ files[Artifact(j)].size = 0

\* C8: after the thread of a job whose fetch failed (an exception or a
\* zero-byte result) has terminated, no file exists at the artifact path.
C8_FailureLeavesNoFile ==
  \A j \in JobIds : (Terminated(j) /\ FetchFailed(j)) => ~Exists(Artifact(j))

\* C9: after the cleanup thread has removed the artifact of a job that was
\* not running, every /status and /downloads answer for the id is 404 or 410.
C9_SweptIsNotFound ==
  \A j \in JobIds :
    (swept[j] = "terminated" /\ (StatusAnswered(j) \/ ServeAnswered(j)))
      => resp.code \in {404, 410}

\* C10: /status and /downloads reject a token that is no uuid before any
\* access to the filesystem.
C10_MalformedRejectedBeforeFs ==
  /\ (resp.route \in {"status", "downloads"} /\ resp.tok[1] # "uuid")
       => (resp.code = 400 /\ ~resp.fs)
  /\ st.pc = "size" => st.tok[1] = "uuid"

\* C11: a /status request for an id that no /download ever returned is
\* answered 404, never with a job state.
C11_UnknownIdIsNotFound ==
  (resp.route = "status" /\ resp.tok[1] = "uuid" /\ task[resp.tok[2]].pc = "none")
    => resp.code = 404

\* a step in which the artifact of job j stops existing
ArtifactRemoved(j) == files[Artifact(j)] # NoFile /\ files'[Artifact(j)] = NoFile
\* ... made by os.remove of the cleanup thread, for a file whose mtime it
\* had read as older than the lifetime
BySweeperAged(j) ==
  /\ sweeper.pc = "remove" /\ sweeper'.pc = "scan" /\ sweeper.cur = Artifact(j)
  /\ sweeper.nowS - sweeper.mt > CLEANUP_INTERVAL
\* ... made by the except branch of the job's own download_video
ByOwnFailure(j) == task[j].pc = "cleanup" /\ task'[j].pc = "failed"
\* ... made by POST /cleanup
ByManualCleanup == resp'.route = "cleanup"

C13_SweeperNeverDies == sweeper.pc # "dead"

\* C14: the /download handler makes no call to yt_dlp, neither for metadata
\* nor for media, before it answers.
C14_SubmitMakesNoEngineCall == resp.route = "download" => ~resp.net

\* C15: a /download answer that carries a job id was made by a step that
\* started exactly one thread, the one of that id, which writes that id's
\* <id>.mp4; a /download answer that is an error was made by a step that
\* started no thread and changed no file.
C15_SubmitStartsOneTaskOrNone ==
  [][resp'.route = "download" =>
       IF resp'.code = 200
         THEN /\ resp'.tok[1] = "uuid" /\ resp'.tok[2] \in JobIds
              /\ task[resp'.tok[2]].pc = "none"
              /\ task'[resp'.tok[2]] = [NoTask EXCEPT !.pc = "info"]
              /\ \A k \in JobIds \ {resp'.tok[2]} : task'[k] = task[k]
         ELSE task' = task /\ files' = files]_vars

\* /download has just answered with the id of the thread it started
C15_Witness ==
  resp.route = "download" /\ resp.code = 200 /\ task[resp.tok[2]].pc = "info"

PrimaryPc == {"info", "primary", "dl_video", "dl_audio", "find", "merge",
              "rm_video_chk", "rm_video", "rm_audio_chk", "rm_audio"}
\* the fallback is entered only from the first attempt, the failure cleanup
\* only from the fallback, the fallback is left only by returning, by
\* raising into the cleanup or by blocking, and a thread that has ended
\* stays ended
BoundedAttempts(j) ==
  /\ (task'[j].pc = "fallback" /\ task[j].pc # "fallback") => task[j].pc \in PrimaryPc
  /\ (task'[j].pc = "cleanup" /\ task[j].pc # "cleanup") => task[j].pc = "fallback"
  /\ task[j].pc = "fallback" => task'[j].pc \in {"fallback", "done", "cleanup", "hung"}
  /\ task[j].pc = "cleanup" => task'[j].pc \in {"cleanup", "failed"}
  /\ Terminated(j) => task'[j] = task[j]
FallbackSucceeds(j) == task[j].pc = "fallback" /\ task'[j].pc = "done"

C18_StatusNeverErrors ==
  (resp.route = "status" /\ resp.tok[1] = "uuid")
    => (resp.code = 200 /\ resp.status \in {"ready", "processing"})

\* C19: a /status answer that says ready names a file that /downloads
\* accepts: the token passes the filename test of serve_download and the
\* file is there.
C19_ReadyIsServable ==
  (resp.route = "status" /\ resp.status = "ready")
    => (ValidFilename(resp.tok) /\ Exists(PathOf(resp.tok)))

\* C20: once the thread of a job has ended, neither of the temporary files
\* it created (video_<id>, audio_<id>) is left in the directory.
C20_NoTempFilesAfterTermination ==
  \A j \in JobIds :
    Terminated(j) => (~Exists(VideoTemp(j)) /\ ~Exists(AudioTemp(j)))

====
